---- MODULE Spec2Model ----
(***************************************************************************)
(* A model of package syncwriter (the concurrency safe io.Writer wrapper)  *)
(* and of humanfmt.Entry (the human readable entry formatter).             *)
(*                                                                         *)
(* Spec     : producers calling Writer.Write and Writer.Sync concurrently. *)
(* LiveSpec : Spec with the fairness the Go scheduler and sync.Mutex give. *)
(* FmtSpec  : calls of humanfmt.Entry on bounded entries.                  *)
(***************************************************************************)
EXTENDS Integers, Sequences, FiniteSets, TLC

\* ---------------------------------------------------------------- bounds
NumProducers == 2
MaxCalls == 3
PayloadLen == 2
MaxFields == 2

Producers == 1..NumProducers

VARIABLES
    sinkKind,   \* dynamic type of Writer.w
    mu,         \* Writer.mu: 0 when unlocked, else the producer holding it
    pc,         \* position of each producer inside Write / Sync
    fr,         \* the frame of each producer's call in progress
    ret,        \* what each producer's last call returned
    calls,      \* number of calls issued so far
    wrote,      \* the calls, by number, that were calls of Write
    dest,       \* the bytes the wrapped sink holds
    diag,       \* what println has put on the diagnostic stream
    fpc,        \* position of the caller of Entry
    ent,        \* Entry's argument ent
    enableColor,\* Entry's argument enableColor
    JSONTest,   \* the package variable slogval.JSONTest
    NoColor,    \* the package variable color.NoColor
    out,        \* what the call of Entry produced
    prev        \* what the previous call of Entry with these arguments produced

sinkVars == <<sinkKind, mu, pc, fr, ret, calls, wrote, dest, diag>>
fmtVars == <<fpc, ent, enableColor, JSONTest, NoColor, out, prev>>
vars == <<sinkKind, mu, pc, fr, ret, calls, wrote, dest, diag,
          fpc, ent, enableColor, JSONTest, NoColor, out, prev>>

\* ------------------------------------------------------- errors (package errors)
Nil == <<>>

\* An error is the chain errors.Unwrap walks, outermost first.
FlushErrs ==
    { Nil, <<"EINVAL">>, <<"ENOTTY">>, <<"EBADF">>, <<"EIO">>,
      <<"PathError", "EINVAL">> }

WriteErr == <<"PathError", "EIO">>

errorsIsHeadOnly(err, target) ==
    IF err = Nil THEN FALSE ELSE Head(err) = target

RECURSIVE errorsIs(_, _)
errorsIs(err, target) ==
    IF err = Nil THEN FALSE
    ELSE IF Head(err) = target THEN TRUE
    ELSE errorsIs(Tail(err), target)

errorsIsAny(err, errs) ==
    \E i \in 1..Len(errs) : errorsIs(err, errs[i])

\* ------------------------------------------------------- the wrapped sink
\* "buffer": an io.Writer without Sync, "file": an *os.File,
\* "syncer": an io.Writer with Sync that is not an *os.File.
SinkKinds == {"buffer", "file", "syncer"}

IsSyncer(k) == k \in {"file", "syncer"}

IsFileAnySink(k) == TRUE

IsFile(k) == k = "file"

\* The sinkName a producer passes to Sync.
SinkName(p) == <<"sink", p>>

\* The p argument of the c-th call of Write: PayloadLen identifiable bytes.
Payload(c) == [j \in 1..PayloadLen |-> <<c, j>>]

NoFrame == [op |-> "none", arg |-> <<>>, sinkWrites |-> 0, sinkArg |-> <<>>,
            n |-> 0, err |-> Nil, flushes |-> 0]

NoRet == [op |-> "none"]

\* A producer calls Write(p) or Sync(sinkName) and reaches w.mu.Lock().
CallWrite(p) ==
    /\ pc[p] = "idle"
    /\ calls < MaxCalls
    /\ calls' = calls + 1
    /\ wrote' = wrote \cup {calls + 1}
    /\ fr' = [fr EXCEPT ![p] = [NoFrame EXCEPT !.op = "Write", !.arg = Payload(calls + 1)]]
    /\ pc' = [pc EXCEPT ![p] = "lock"]
    /\ ret' = [ret EXCEPT ![p] = NoRet]
    /\ UNCHANGED <<sinkKind, mu, dest, diag>>

CallSync(p) ==
    /\ pc[p] = "idle"
    /\ calls < MaxCalls
    /\ calls' = calls + 1
    /\ wrote' = wrote
    /\ fr' = [fr EXCEPT ![p] = [NoFrame EXCEPT !.op = "Sync", !.arg = SinkName(p)]]
    /\ pc' = [pc EXCEPT ![p] = "lock"]
    /\ ret' = [ret EXCEPT ![p] = NoRet]
    /\ UNCHANGED <<sinkKind, mu, dest, diag>>

MutexFreeIgnored(m) == TRUE

MutexFree(m) == m = 0

LockFastPath(p) ==
    /\ pc[p] = "lock"
    /\ IF fr[p].op = "Sync" /\ ~IsSyncer(sinkKind)
       THEN /\ mu' = mu
            /\ pc' = [pc EXCEPT ![p] = "check"]
            /\ fr' = fr
       ELSE /\ MutexFree(mu)
            /\ mu' = p
            /\ IF fr[p].op = "Write"
               THEN /\ pc' = [pc EXCEPT ![p] = "write"]
                    /\ fr' = [fr EXCEPT ![p].sinkWrites = @ + 1, ![p].sinkArg = fr[p].arg]
               ELSE /\ pc' = [pc EXCEPT ![p] = "check"]
                    /\ fr' = fr
    /\ UNCHANGED <<sinkKind, ret, calls, wrote, dest, diag>>

\* w.mu.Lock(); a Write then enters w.w.Write(p), a Sync the type assertion.
Lock(p) ==
    /\ pc[p] = "lock"
    /\ MutexFree(mu)
    /\ mu' = p
    /\ IF fr[p].op = "Write"
       THEN /\ pc' = [pc EXCEPT ![p] = "write"]
            /\ fr' = [fr EXCEPT ![p].sinkWrites = @ + 1, ![p].sinkArg = fr[p].arg]
       ELSE /\ pc' = [pc EXCEPT ![p] = "check"]
            /\ fr' = fr
    /\ UNCHANGED <<sinkKind, ret, calls, wrote, dest, diag>>

\* The wrapped sink's Write takes one step per byte.
SinkWriteByte(p) ==
    /\ pc[p] = "write"
    /\ fr[p].n < Len(fr[p].sinkArg)
    /\ dest' = Append(dest, fr[p].sinkArg[fr[p].n + 1])
    /\ fr' = [fr EXCEPT ![p].n = @ + 1]
    /\ pc' = [pc EXCEPT ![p] = IF fr[p].n + 1 = Len(fr[p].sinkArg) THEN "wret" ELSE "write"]
    /\ UNCHANGED <<sinkKind, mu, ret, calls, wrote, diag>>

\* The wrapped sink's Write fails with a short count (never an in-memory buffer).
SinkWriteFail(p) ==
    /\ pc[p] = "write"
    /\ sinkKind # "buffer"
    /\ fr[p].n < Len(fr[p].sinkArg)
    /\ fr' = [fr EXCEPT ![p].err = WriteErr]
    /\ pc' = [pc EXCEPT ![p] = "wret"]
    /\ UNCHANGED <<sinkKind, mu, ret, calls, wrote, dest, diag>>

WriteReturnSwallow(p) ==
    /\ pc[p] = "wret"
    /\ ret' = [ret EXCEPT ![p] = [op |-> "Write", n |-> Len(fr[p].arg), err |-> Nil]]
    /\ mu' = 0
    /\ pc' = [pc EXCEPT ![p] = "idle"]
    /\ fr' = [fr EXCEPT ![p] = NoFrame]
    /\ UNCHANGED <<sinkKind, calls, wrote, dest, diag>>

\* return w.w.Write(p), then the deferred w.mu.Unlock().
WriteReturn(p) ==
    /\ pc[p] = "wret"
    /\ ret' = [ret EXCEPT ![p] = [op |-> "Write", n |-> fr[p].n, err |-> fr[p].err]]
    /\ mu' = 0
    /\ pc' = [pc EXCEPT ![p] = "idle"]
    /\ fr' = [fr EXCEPT ![p] = NoFrame]
    /\ UNCHANGED <<sinkKind, calls, wrote, dest, diag>>

SyncNoSyncerKeepsLock(p) ==
    /\ pc[p] = "check"
    /\ ~IsSyncer(sinkKind)
    /\ ret' = [ret EXCEPT ![p] = [op |-> "Sync", flushes |-> fr[p].flushes, flushErr |-> fr[p].err]]
    /\ pc' = [pc EXCEPT ![p] = "idle"]
    /\ fr' = [fr EXCEPT ![p] = NoFrame]
    /\ UNCHANGED <<sinkKind, mu, calls, wrote, dest, diag>>

\* s, ok := w.w.(syncer); if !ok { return }, then the deferred Unlock.
SyncNoSyncer(p) ==
    /\ pc[p] = "check"
    /\ ~IsSyncer(sinkKind)
    /\ ret' = [ret EXCEPT ![p] = [op |-> "Sync", flushes |-> fr[p].flushes, flushErr |-> fr[p].err]]
    /\ mu' = 0
    /\ pc' = [pc EXCEPT ![p] = "idle"]
    /\ fr' = [fr EXCEPT ![p] = NoFrame]
    /\ UNCHANGED <<sinkKind, calls, wrote, dest, diag>>

\* err := s.Sync()
SyncFlush(p) ==
    /\ pc[p] = "check"
    /\ IsSyncer(sinkKind)
    /\ \E e \in FlushErrs :
         fr' = [fr EXCEPT ![p].err = e, ![p].flushes = @ + 1]
    /\ pc' = [pc EXCEPT ![p] = "flushed"]
    /\ UNCHANGED <<sinkKind, mu, ret, calls, wrote, dest, diag>>

Quirks == <<"EINVAL", "ENOTTY", "EBADF">>

\* if _, ok := w.w.(*os.File); ok { if errorsIsAny(err, ...) { return } }
Suppressed(k, err) == IsFile(k) /\ errorsIsAny(err, Quirks)

SyncSuppress(p) ==
    /\ pc[p] = "flushed"
    /\ Suppressed(sinkKind, fr[p].err)
    /\ ret' = [ret EXCEPT ![p] = [op |-> "Sync", flushes |-> fr[p].flushes, flushErr |-> fr[p].err]]
    /\ mu' = 0
    /\ pc' = [pc EXCEPT ![p] = "idle"]
    /\ fr' = [fr EXCEPT ![p] = NoFrame]
    /\ UNCHANGED <<sinkKind, calls, wrote, dest, diag>>

\* println(fmt.Sprintf("failed to sync %v: %+v", sinkName, err))
SyncReport(p) ==
    /\ pc[p] = "flushed"
    /\ ~Suppressed(sinkKind, fr[p].err)
    /\ diag' = Append(diag, [label |-> fr[p].arg, err |-> fr[p].err])
    /\ ret' = [ret EXCEPT ![p] = [op |-> "Sync", flushes |-> fr[p].flushes, flushErr |-> fr[p].err]]
    /\ mu' = 0
    /\ pc' = [pc EXCEPT ![p] = "idle"]
    /\ fr' = [fr EXCEPT ![p] = NoFrame]
    /\ UNCHANGED <<sinkKind, calls, wrote, dest>>

\* ------------------------------------------------------- humanfmt.Entry
NL == "\n"

KnownLevels ==
    {"LevelDebug", "LevelInfo", "LevelWarn", "LevelError", "LevelCritical", "LevelFatal"}

Levels == KnownLevels \cup {"Level(12)"}

\* slog.Level.String: the canonical short name; any other level prints as a number.
levelString(level) ==
    CASE level = "LevelDebug" -> "DEBUG"
      [] level = "LevelInfo" -> "INFO"
      [] level = "LevelWarn" -> "WARN"
      [] level = "LevelError" -> "ERROR"
      [] level = "LevelCritical" -> "CRITICAL"
      [] level = "LevelFatal" -> "FATAL"
      [] OTHER -> "slog.Level(12)"

levelColor(level) ==
    CASE level \in {"LevelDebug", "LevelInfo"} -> "FgBlue"
      [] level = "LevelWarn" -> "FgYellow"
      [] level = "LevelError" -> "FgRed"
      [] level \in {"LevelCritical", "LevelFatal"} -> "FgHiRed"
      [] OTHER -> "panic"

\* color.New(attr).Sprint(s): the escape codes, unless color.NoColor is set.
Sprint(attr, s) ==
    IF NoColor THEN s ELSE <<attr>> \o s \o <<"Reset">>

\* filepath.Base of a path given as its elements.
Base(file) == IF file = <<>> THEN <<".">> ELSE <<file[Len(file)]>>

\* The quoting rule: quote a string only if it holds a space or a quote.
NeedsQuote(s) == \E i \in 1..Len(s) : s[i] \in {" ", "\""}

RECURSIVE escape(_)
escape(s) ==
    IF s = <<>> THEN <<>>
    ELSE (IF Head(s) = "\"" THEN <<"\\", "\"">> ELSE <<Head(s)>>) \o escape(Tail(s))

quote(s) == IF NeedsQuote(s) THEN <<"\"">> \o escape(s) \o <<"\"">> ELSE s

quoteKey(s) == IF NeedsQuote(s) THEN <<"\"">> \o escape(s) \o <<"\"">> ELSE s

\* ent.Time.Format(timestampMilli): the day of the month padded by a zero.
timeFormat(t) ==
    <<t.month, " ">> \o (IF Len(t.day) < 2 THEN <<"0">> \o t.day ELSE t.day)
                     \o <<" ", t.clock>>

EmptySpan == [TraceID |-> "0", SpanID |-> "0"]

\* slogval.Encode: a map keeping the order of the fields, or a value that is no map.
Encode(fields, shape) ==
    IF shape = "Map" THEN [kind |-> "Map", m |-> fields]
    ELSE [kind |-> "Scalar", m |-> <<>>]

\* fmtVal: one field per line, no newline after the last.
RECURSIVE fmtVal(_)
fmtVal(m) ==
    IF m = <<>> THEN <<>>
    ELSE <<m[1].Name, ": ", m[1].Value>>
         \o (IF Len(m) > 1 THEN <<NL>> \o fmtVal(Tail(m)) ELSE <<>>)

RECURSIVE jsonPairs(_)
jsonPairs(m) ==
    IF m = <<>> THEN <<>>
    ELSE <<m[1].Name, ":", m[1].Value>>
         \o (IF Len(m) > 1 THEN <<",">> \o jsonPairs(Tail(m)) ELSE <<>>)

\* json.Marshal: fails on a value JSON cannot represent.
jsonMarshal(m) ==
    IF \E i \in 1..Len(m) : m[i].Value = "+Inf"
    THEN [err |-> TRUE, s |-> <<>>]
    ELSE [err |-> FALSE, s |-> <<"{">> \o jsonPairs(m) \o <<"}">>]

Panic == [called |-> TRUE, fault |-> TRUE, s |-> <<>>]

NotCalled == [called |-> FALSE, fault |-> FALSE, s |-> <<>>]

Returned(s) == [called |-> TRUE, fault |-> FALSE, s |-> s]

\* ent.Fields after the trace and span fields are put in front of it.
withSpan(e) ==
    IF e.SpanContext # EmptySpan
    THEN <<[Name |-> "trace", Value |-> e.SpanContext.TraceID],
           [Name |-> "span", Value |-> e.SpanContext.SpanID]>> \o e.Fields
    ELSE e.Fields

\* Everything up to and including the message.
header(e, color) ==
    LET level == IF color THEN Sprint(levelColor(e.Level), <<levelString(e.Level)>>)
                 ELSE <<levelString(e.Level)>>
        loc0 == Base(e.File) \o <<":", e.Line>>
        loc == IF color THEN Sprint("FgGreen", loc0) ELSE loc0
        comp == IF color THEN Sprint("FgMagenta", quoteKey(e.Component))
                ELSE quoteKey(e.Component)
    IN  <<"[">> \o level \o <<"] ">>
        \o <<"{">> \o loc \o <<"} ">>
        \o (IF e.Component # <<>> THEN <<"(">> \o comp \o <<") ">> ELSE <<>>)
        \o timeFormat(e.Time)
        \o <<": ">> \o quote(e.Message)

Entry(e, color) ==
    LET enc == Encode(withSpan(e), e.Shape)
        m == enc.m
    IN  IF color /\ levelColor(e.Level) = "panic" THEN Panic
        ELSE IF enc.kind # "Map" THEN Returned(header(e, color))
        ELSE IF JSONTest
             THEN IF Len(m) < 3 THEN Panic
                  ELSE LET errVal == m[3]
                           rest == SubSeq(m, 1, 2) \o SubSeq(m, 4, Len(m))
                           js == jsonMarshal(rest)
                       IN  Returned(header(e, color)
                                    \o (IF js.err THEN <<>> ELSE <<NL>> \o js.s)
                                    \o <<NL>>
                                    \o fmtVal(<<[Name |-> "error", Value |-> errVal.Value]>>))
             ELSE Returned(header(e, color) \o <<NL>> \o fmtVal(m))

FieldPool ==
    { [Name |-> "retries", Value |-> "3"],
      [Name |-> "error", Value |-> "boom"],
      [Name |-> "x", Value |-> "+Inf"] }

FieldSeqs == UNION { [1..n -> FieldPool] : n \in 0..MaxFields }

Entries ==
    [ Level : Levels,
      File : {<<"pkg", "server.go">>},
      Line : {"42"},
      Component : {<<>>, <<"a", " ", "b">>},
      Time : {[month |-> "Jan", day |-> <<"2">>, clock |-> "15:04:05.000"]},
      Message : {<<"o", "k">>, <<"a", "\"">>},
      SpanContext : {EmptySpan, [TraceID |-> "t1", SpanID |-> "s1"]},
      Fields : FieldSeqs,
      Shape : {"Map", "Scalar"} ]

\* The arguments of Entry and the package variables it reads; no sink call is modelled.
FmtInit ==
    /\ fpc = "ready"
    /\ ent \in Entries
    /\ enableColor \in BOOLEAN
    /\ JSONTest \in BOOLEAN
    /\ NoColor \in BOOLEAN
    /\ out = NotCalled
    /\ prev = NotCalled
    /\ sinkKind = "buffer"
    /\ mu = 0
    /\ pc = [p \in Producers |-> "idle"]
    /\ fr = [p \in Producers |-> NoFrame]
    /\ ret = [p \in Producers |-> NoRet]
    /\ calls = 0
    /\ wrote = {}
    /\ dest = <<>>
    /\ diag = <<>>

\* A call Entry(ent, enableColor); ent is passed by value.
FormatCall ==
    /\ fpc = "ready"
    /\ out' = Entry(ent, enableColor)
    /\ fpc' = "returned"
    /\ UNCHANGED <<ent, enableColor, JSONTest, NoColor, prev>>

\* Other code of the process sets the package variables between two calls.
SetJSONTest ==
    /\ fpc = "returned"
    /\ prev = NotCalled
    /\ JSONTest' = ~JSONTest
    /\ UNCHANGED <<fpc, ent, enableColor, NoColor, out, prev>>

SetNoColor ==
    /\ fpc = "returned"
    /\ prev = NotCalled
    /\ NoColor' = ~NoColor
    /\ UNCHANGED <<fpc, ent, enableColor, JSONTest, out, prev>>

\* The caller keeps the result and calls Entry again with the same arguments.
CallAgain ==
    /\ fpc = "returned"
    /\ prev = NotCalled
    /\ prev' = out
    /\ out' = NotCalled
    /\ fpc' = "ready"
    /\ UNCHANGED <<ent, enableColor, JSONTest, NoColor>>

\* New(w): the wrapper of one sink, unlocked; no call of Entry is modelled.
Init ==
    /\ sinkKind \in SinkKinds
    /\ mu = 0
    /\ pc = [p \in Producers |-> "idle"]
    /\ fr = [p \in Producers |-> NoFrame]
    /\ ret = [p \in Producers |-> NoRet]
    /\ calls = 0
    /\ wrote = {}
    /\ dest = <<>>
    /\ diag = <<>>
    /\ fpc = "off"
    /\ ent = <<>>
    /\ enableColor = FALSE
    /\ JSONTest = FALSE
    /\ NoColor = FALSE
    /\ out = NotCalled
    /\ prev = NotCalled

Step(p) ==
    \/ Lock(p)
    \/ SinkWriteByte(p)
    \/ SinkWriteFail(p)
    \/ WriteReturn(p)
    \/ SyncNoSyncer(p)
    \/ SyncFlush(p)
    \/ SyncSuppress(p)
    \/ SyncReport(p)

Next ==
    \/ \E p \in Producers : CallWrite(p) /\ UNCHANGED fmtVars
    \/ \E p \in Producers : CallSync(p) /\ UNCHANGED fmtVars
    \/ \E p \in Producers : Lock(p) /\ UNCHANGED fmtVars
    \/ \E p \in Producers : SinkWriteByte(p) /\ UNCHANGED fmtVars
    \/ \E p \in Producers : SinkWriteFail(p) /\ UNCHANGED fmtVars
    \/ \E p \in Producers : WriteReturn(p) /\ UNCHANGED fmtVars
    \/ \E p \in Producers : SyncNoSyncer(p) /\ UNCHANGED fmtVars
    \/ \E p \in Producers : SyncFlush(p) /\ UNCHANGED fmtVars
    \/ \E p \in Producers : SyncSuppress(p) /\ UNCHANGED fmtVars
    \/ \E p \in Producers : SyncReport(p) /\ UNCHANGED fmtVars

Spec == Init /\ [][Next]_vars

\* A goroutine inside a call keeps running, and sync.Mutex hands the lock to
\* every waiter in the end (its starvation mode).
Fairness ==
    \A p \in Producers :
        /\ WF_vars(Step(p) /\ UNCHANGED fmtVars)
        /\ SF_vars(Lock(p) /\ UNCHANGED fmtVars)

LiveSpec == Init /\ [][Next]_vars /\ Fairness

FmtNext ==
    \/ FormatCall /\ UNCHANGED sinkVars
    \/ SetJSONTest /\ UNCHANGED sinkVars
    \/ SetNoColor /\ UNCHANGED sinkVars
    \/ CallAgain /\ UNCHANGED sinkVars

FmtSpec == FmtInit /\ [][FmtNext]_vars

\* ------------------------------------------------------------ properties
AllIdle == \A p \in Producers : pc[p] = "idle"

\* The positions of the sink where the whole payload of call c starts.
Occurrences(c) ==
    { i \in 1..(Len(dest) - PayloadLen + 1) :
        SubSeq(dest, i, i + PayloadLen - 1) = Payload(c) }

\* The bytes of one call lie side by side, in the order of the payload.
ContiguousRuns ==
    \A i \in 1..Len(dest) : \A j \in i..Len(dest) :
        dest[i][1] = dest[j][1] =>
            /\ \A k \in i..j : dest[k][1] = dest[i][1]
            /\ dest[j][2] = dest[i][2] + (j - i)

\* C1: whatever the interleaving of the producers, the bytes of a Write are
\* never mixed with those of another Write, and once every call on an
\* in-memory buffer has returned the buffer holds the payload of every Write,
\* each exactly once and nothing else.
C1_PayloadsWholeAndOnce ==
    /\ ContiguousRuns
    /\ (AllIdle /\ sinkKind = "buffer") =>
          /\ \A c \in wrote : Cardinality(Occurrences(c)) = 1
          /\ Len(dest) = PayloadLen * Cardinality(wrote)

C1_Witness ==
    /\ AllIdle
    /\ sinkKind = "buffer"
    /\ wrote = 1..MaxCalls
    /\ Len(dest) = PayloadLen * MaxCalls
    /\ dest[1][1] = 2
    /\ \A p \in Producers : ret[p].op = "Write"

InSink == {"write", "wret", "check", "flushed"}

\* C2: at most one call is between Lock and Unlock, and it holds the mutex;
\* this includes a Sync on a sink that has no Sync method.
C2_MutualExclusion ==
    /\ \A p \in Producers : pc[p] \in InSink => mu = p
    /\ Cardinality({p \in Producers : pc[p] \in InSink}) <= 1

C2_Witness ==
    \E p, q \in Producers :
        /\ p # q
        /\ sinkKind = "buffer"
        /\ pc[p] = "check"
        /\ fr[p].op = "Sync"
        /\ pc[q] = "lock"

\* C3: under fair scheduling every call of Write and of Sync returns, and a
\* producer that is not inside a call does not hold the mutex.
C3_EveryCallReturns ==
    /\ \A p \in Producers : (pc[p] # "idle") ~> (pc[p] = "idle" /\ ret[p].op # "none")
    /\ [](\A p \in Producers : pc[p] \in {"idle", "lock"} => mu # p)

C3_Witness ==
    \E p, q \in Producers :
        /\ p # q
        /\ ret[p].op = "Sync"
        /\ pc[p] = "idle"
        /\ ret[p].flushErr = <<"EIO">>
        /\ Len(diag) = 1
        /\ pc[q] = "write"
        /\ mu = q

\* C4: Write hands its argument to the wrapped sink once and returns the
\* count and the error the wrapped sink gave; the sink holds exactly the
\* bytes the wrapped sink accepted, and the return itself writes nothing.
C4_WriteForwards ==
    [][\A p \in Producers :
          (pc[p] = "wret" /\ pc'[p] = "idle") =>
              /\ ret'[p] = [op |-> "Write", n |-> fr[p].n, err |-> fr[p].err]
              /\ fr[p].sinkWrites = 1
              /\ fr[p].sinkArg = fr[p].arg
              /\ dest' = dest
              /\ Len(dest) >= fr[p].n
              /\ SubSeq(dest, Len(dest) - fr[p].n + 1, Len(dest))
                    = SubSeq(fr[p].arg, 1, fr[p].n)]_vars

C4_Witness ==
    \E p \in Producers :
        /\ pc[p] = "idle"
        /\ ret[p].op = "Write"
        /\ ret[p].err = WriteErr
        /\ ret[p].n = 1
        /\ Len(dest) = 1

QuirkCodes == {"EINVAL", "ENOTTY", "EBADF"}

HasQuirkCode(err) == \E i \in 1..Len(err) : err[i] \in QuirkCodes

SyncEnds(p) == pc[p] = "flushed" /\ pc'[p] # "flushed"

\* C5: on an *os.File, a flush error that is or wraps EINVAL, ENOTTY or EBADF
\* is swallowed: Sync returns, and neither the diagnostic stream nor the
\* wrapped sink receives anything.
C5_QuirksSwallowed ==
    [][\A p \in Producers :
          (SyncEnds(p) /\ sinkKind = "file" /\ HasQuirkCode(fr[p].err)) =>
              /\ diag' = diag
              /\ dest' = dest
              /\ pc'[p] = "idle"
              /\ ret'[p].op = "Sync"
              /\ mu' = 0]_vars

C5_Witness ==
    \E p \in Producers :
        /\ sinkKind = "file"
        /\ pc[p] = "idle"
        /\ ret[p].op = "Sync"
        /\ ret[p].flushErr = <<"PathError", "EINVAL">>
        /\ diag = <<>>

\* C6: a flush failure that is not swallowed (any error of a sink that is no
\* *os.File, any error without one of the three codes on a file) puts one
\* report on the diagnostic stream, carrying the sinkName of that call and
\* the error; no other step of Sync reports, and Sync never writes to the
\* wrapped sink.
C6_FailureReportedOnce ==
    [][\A p \in Producers :
          /\ (SyncEnds(p) /\ fr[p].err # Nil
                /\ ~(sinkKind = "file" /\ HasQuirkCode(fr[p].err))) =>
                 /\ diag' = Append(diag, [label |-> fr[p].arg, err |-> fr[p].err])
                 /\ dest' = dest
          /\ (fr[p].op = "Sync" /\ pc[p] \in {"lock", "check"} /\ fr[p].flushes = 0
                /\ pc'[p] # pc[p]) =>
                 /\ diag' = diag
                 /\ dest' = dest]_vars

C6_Witness ==
    \E p \in Producers :
        /\ sinkKind = "syncer"
        /\ pc[p] = "idle"
        /\ ret[p].op = "Sync"
        /\ ret[p].flushErr = <<"EBADF">>
        /\ diag = <<[label |-> SinkName(p), err |-> <<"EBADF">>]>>
        /\ dest = <<>>

\* C7: for a level outside the six known levels Entry panics, with and
\* without enableColor.
C7_UnknownLevelPanics ==
    (fpc = "returned" /\ ent.Level \notin KnownLevels) => out.fault

EncodedEmptyOrNoMap(e) == e.Shape # "Map" \/ withSpan(e) = <<>>

\* C8: when the encoder gives an empty map or no map, Entry returns the text
\* up to the message and nothing after it: no newline, no field block.
C8_NothingAfterMessage ==
    (fpc = "returned" /\ ~out.fault /\ EncodedEmptyOrNoMap(ent)) =>
        /\ out.s = header(ent, enableColor)
        /\ \A i \in 1..Len(out.s) : out.s[i] # NL

\* C9: two calls of Entry with the same ent and the same enableColor return
\* the same, whatever the package variables are at the time of each call.
C9_SameArgumentsSameResult ==
    (fpc = "returned" /\ prev.called) => out = prev

\* C10: the diagnostic stream only ever receives the report of a flush that
\* returned an error.
C10_ReportsOnlyFailures ==
    \A i \in 1..Len(diag) : diag[i].err # Nil
====
